---------------------------- MODULE Spec2Model ----------------------------
(***************************************************************************)
(* ArbitraryPrecision::FixedInteger<Bits> and ArbitraryPrecision::         *)
(* DynamicInteger (src/ArbitraryInteger.hpp), with the decimal codec       *)
(* to_string / from_string.                                                *)
(*                                                                         *)
(* A value is its segment store: a sequence of chunks, least-significant   *)
(* chunk first.  The source indexes segments from 0; At/Put keep the       *)
(* source's indices on TLA+'s 1-based sequences.                           *)
(*                                                                         *)
(* Scaling.  The source's Chunk is uint64_t and mul128 splits it into two  *)
(* 32-bit limbs.  The model keeps the same structure on a narrower chunk:  *)
(* HalfBits bits per limb, ChunkBits = 2 * HalfBits bits per chunk, every  *)
(* chunk operation reduced modulo Base = 2^ChunkBits exactly where the     *)
(* source's unsigned arithmetic wraps.  HalfBits = 2 is the narrowest      *)
(* chunk that still holds the constant ten and every decimal digit, and    *)
(* in which the middle sum of mul128 can wrap.                             *)
(***************************************************************************)
EXTENDS Integers, Sequences, FiniteSets, TLC

\* uint32 limb of mul128 (0xFFFFFFFF, >> 32), scaled.
HalfBits == 2

\* sizeof(Chunk) * CHAR_BIT, scaled with the limb.
ChunkBits == 2 * HalfBits

Base == 2 ^ ChunkBits

HalfBase == 2 ^ HalfBits

\* ~0ULL
ChunkMax == Base - 1

Chunks == 0 .. ChunkMax

\* FixedInteger<Bits>: Segments = std::array<Chunk, Bits / 64>.
NUM_SEGMENTS == 2

Bits == NUM_SEGMENTS * ChunkBits

---------------------------------------------------------------------------
(* Chunk arithmetic: the uint64_t operators the source uses.               *)

Wrap(x) == x % Base

Shl(x, n) == (x * (2 ^ n)) % Base

Shr(x, n) == x \div (2 ^ n)

Bit(x, i) == (x \div (2 ^ i)) % 2

\* One bit of x & y, x | y or x ^ y.
BitOf(name, p, q) ==
  IF name = "&" THEN (IF p = 1 /\ q = 1 THEN 1 ELSE 0)
  ELSE IF name = "|" THEN (IF p = 1 \/ q = 1 THEN 1 ELSE 0)
  ELSE (IF p # q THEN 1 ELSE 0)

RECURSIVE BitCombine(_, _, _, _)
BitCombine(name, x, y, i) ==
  IF i = ChunkBits THEN 0
  ELSE BitOf(name, Bit(x, i), Bit(y, i)) * (2 ^ i) + BitCombine(name, x, y, i + 1)

BitAnd(x, y) == BitCombine("&", x, y, 0)

BitOr(x, y) == BitCombine("|", x, y, 0)

BitXor(x, y) == BitCombine("^", x, y, 0)

BitNot(x) == ChunkMax - x

At(s, i) == s[i + 1]

Put(s, i, v) == [s EXCEPT ![i + 1] = v]

\* n zero chunks: a value-initialised segment store.
RECURSIVE Zeros(_)
Zeros(n) == IF n = 0 THEN <<>> ELSE Append(Zeros(n - 1), 0)

\* segments.resize(n, 0): keeps the first n chunks, zero-fills new ones.
RECURSIVE Resize(_, _)
Resize(s, n) ==
  IF n = 0 THEN <<>>
  ELSE Append(Resize(s, n - 1), IF n <= Len(s) THEN s[n] ELSE 0)

\* for (i = from; i < to; ++i) segments[i] = v
RECURSIVE FillLoop(_, _, _, _)
FillLoop(s, i, to, v) ==
  IF i >= to THEN s ELSE FillLoop(Put(s, i, v), i + 1, to, v)

\* for (i = 0; i < length(); ++i) result.segments[i] = ~segments[i]
RECURSIVE NotLoop(_, _, _)
NotLoop(result, s, i) ==
  IF i >= Len(s) THEN result
  ELSE NotLoop(Put(result, i, BitNot(At(s, i))), s, i + 1)

\* for (i = 0; i < n; ++i) segments[i] op= other.segments[i]
RECURSIVE BitwiseLoop(_, _, _, _, _)
BitwiseLoop(name, s, other, i, n) ==
  IF i >= n THEN s
  ELSE BitwiseLoop(name, Put(s, i, BitCombine(name, At(s, i), At(other, i), 0)), other, i + 1, n)

Max(x, y) == IF x >= y THEN x ELSE y

Min(x, y) == IF x <= y THEN x ELSE y

\* The magnitude a segment store denotes (used only to state properties).
RECURSIVE value(_)
value(s) == IF s = <<>> THEN 0 ELSE Head(s) + Base * value(Tail(s))

---------------------------------------------------------------------------
(* Private helpers shared by both classes.                                 *)

add_with_carry(a, b, carry_in) ==
  LET result == Wrap(a + b + (IF carry_in THEN 1 ELSE 0))
  IN [result |-> result, carry |-> result < a \/ (carry_in /\ result = a)]

sub_with_borrow(a, b, borrow_in) ==
  LET result == Wrap(a - b - (IF borrow_in THEN 1 ELSE 0) + 2 * Base)
  IN [result |-> result, borrow |-> b > a \/ (borrow_in /\ b = a)]

mul128(a, b) ==
  LET a_lo == BitAnd(a, HalfBase - 1)
      a_hi == Shr(a, HalfBits)
      b_lo == BitAnd(b, HalfBase - 1)
      b_hi == Shr(b, HalfBits)
      p0 == Wrap(a_lo * b_lo)
      p1 == Wrap(a_lo * b_hi)
      p2 == Wrap(a_hi * b_lo)
      p3 == Wrap(a_hi * b_hi)
      mid0 == Wrap(p1 + Shr(p0, HalfBits))
      mid == Wrap(mid0 + p2)
      carry == IF mid < p1 THEN 1 ELSE 0
      lo == BitOr(Shl(mid, HalfBits), BitAnd(p0, HalfBase - 1))
      hi == Wrap(p3 + Shr(mid, HalfBits) + Shl(carry, HalfBits))
  IN [lo |-> lo, hi |-> hi]

---------------------------------------------------------------------------
(* FixedInteger<Bits>.  length() is NUM_SEGMENTS.                          *)

Fixed_Default == Zeros(NUM_SEGMENTS)

\* FixedInteger(std::integral auto value): v is the native value, negative
\* only for a signed type; static_cast<Chunk> reduces it modulo Base.
\* The constructor storing a negative value in segment 0 only, as
\* DynamicInteger's does.
Fixed_Construct_LowOnly(v) == Put(Fixed_Default, 0, Wrap(v + Base))

Fixed_Construct(v) ==
  LET first == Put(Fixed_Default, 0, Wrap(v + Base))
  IN IF v < 0 THEN FillLoop(first, 1, NUM_SEGMENTS, ChunkMax) ELSE first

RECURSIVE Fixed_NegLoop(_, _, _, _)
Fixed_NegLoop(result, s, i, borrow) ==
  IF i >= NUM_SEGMENTS THEN result
  ELSE LET r == sub_with_borrow(0, At(s, i), borrow)
       IN Fixed_NegLoop(Put(result, i, r.result), s, i + 1, r.borrow)

Fixed_Neg(s) == Fixed_NegLoop(Fixed_Default, s, 0, FALSE)

Fixed_Not(s) == NotLoop(Fixed_Default, s, 0)

RECURSIVE Fixed_AddLoop(_, _, _, _)
Fixed_AddLoop(s, other, i, carry) ==
  IF i >= NUM_SEGMENTS THEN s
  ELSE LET r == add_with_carry(At(s, i), At(other, i), carry)
       IN Fixed_AddLoop(Put(s, i, r.result), other, i + 1, r.carry)

\* operator+= with the carry into the last segment never handed on.
Fixed_Add_NoCarry(s, other) ==
  Put(Fixed_AddLoop(s, other, 0, FALSE), NUM_SEGMENTS - 1,
      Wrap(At(s, NUM_SEGMENTS - 1) + At(other, NUM_SEGMENTS - 1)))

Fixed_Add(s, other) == Fixed_AddLoop(s, other, 0, FALSE)

RECURSIVE Fixed_SubLoop(_, _, _, _)
Fixed_SubLoop(s, other, i, borrow) ==
  IF i >= NUM_SEGMENTS THEN s
  ELSE LET r == sub_with_borrow(At(s, i), At(other, i), borrow)
       IN Fixed_SubLoop(Put(s, i, r.result), other, i + 1, r.borrow)

\* operator-= with the borrow into the last segment never handed on.
Fixed_Sub_NoBorrow(s, other) ==
  Put(Fixed_SubLoop(s, other, 0, FALSE), NUM_SEGMENTS - 1,
      Wrap(At(s, NUM_SEGMENTS - 1) - At(other, NUM_SEGMENTS - 1) + Base))

Fixed_Sub(s, other) == Fixed_SubLoop(s, other, 0, FALSE)

\* The inner loop of operator*= with carry = c1 + c2, the high half left out.
RECURSIVE Fixed_MulInner_NoHi(_, _, _, _, _, _, _)
Fixed_MulInner_NoHi(result, s, other, i, j, jEnd, carry) ==
  IF j >= jEnd THEN result
  ELSE LET m  == mul128(At(s, i), At(other, j))
           c1 == add_with_carry(m.lo, carry, FALSE)
           c2 == add_with_carry(c1.result, At(result, i + j), FALSE)
       IN Fixed_MulInner_NoHi(Put(result, i + j, c2.result), s, other, i, j + 1, jEnd,
                              (IF c1.carry THEN 1 ELSE 0) + (IF c2.carry THEN 1 ELSE 0))

\* One pass of the inner loop of operator*=: j runs while j < jEnd.
RECURSIVE Fixed_MulInner(_, _, _, _, _, _, _)
Fixed_MulInner(result, s, other, i, j, jEnd, carry) ==
  IF j >= jEnd THEN result
  ELSE LET m  == mul128(At(s, i), At(other, j))
           c1 == add_with_carry(m.lo, carry, FALSE)
           c2 == add_with_carry(c1.result, At(result, i + j), FALSE)
       IN Fixed_MulInner(Put(result, i + j, c2.result), s, other, i, j + 1, jEnd,
                         Wrap(m.hi + (IF c1.carry THEN 1 ELSE 0)
                                   + (IF c2.carry THEN 1 ELSE 0)))

RECURSIVE Fixed_MulOuter(_, _, _, _)
Fixed_MulOuter(result, s, other, i) ==
  IF i >= NUM_SEGMENTS THEN result
  ELSE Fixed_MulOuter(Fixed_MulInner(result, s, other, i, 0, NUM_SEGMENTS - i, 0),
                      s, other, i + 1)

Fixed_Mul(s, other) == Fixed_MulOuter(Fixed_Default, s, other, 0)

Fixed_And(s, other) == BitwiseLoop("&", s, other, 0, NUM_SEGMENTS)

Fixed_Or(s, other) == BitwiseLoop("|", s, other, 0, NUM_SEGMENTS)

Fixed_Xor(s, other) == BitwiseLoop("^", s, other, 0, NUM_SEGMENTS)

\* for (i = length() - 1; i >= seg_shift; --i) segments[i] = segments[i - seg_shift]
RECURSIVE ShlMove(_, _, _)
ShlMove(s, i, seg_shift) ==
  IF i < seg_shift THEN s
  ELSE LET s1 == Put(s, i, At(s, i - seg_shift))
       IN IF i = seg_shift THEN s1 ELSE ShlMove(s1, i - 1, seg_shift)

\* for (i = length() - 1; i > seg_shift; --i)
\*   segments[i] = segments[i - seg_shift] << bit_shift | segments[i - seg_shift - 1] >> (64 - bit_shift)
RECURSIVE ShlCombine(_, _, _, _)
ShlCombine(s, i, seg_shift, bit_shift) ==
  IF i <= seg_shift THEN s
  ELSE ShlCombine(Put(s, i, BitOr(Shl(At(s, i - seg_shift), bit_shift),
                                  Shr(At(s, i - seg_shift - 1), ChunkBits - bit_shift))),
                  i - 1, seg_shift, bit_shift)

\* for (i = 0; i < seg_shift; ++i) segments[i] = 0
ZeroLow(s, seg_shift) == FillLoop(s, 0, seg_shift, 0)

Fixed_Shl(s, shift) ==
  IF shift >= Bits THEN Fixed_Default
  ELSE LET seg_shift == shift \div ChunkBits
           bit_shift == shift % ChunkBits
           moved == IF bit_shift = 0
                    THEN ShlMove(s, NUM_SEGMENTS - 1, seg_shift)
                    ELSE LET c == ShlCombine(s, NUM_SEGMENTS - 1, seg_shift, bit_shift)
                         IN Put(c, seg_shift, Shl(At(c, 0), bit_shift))
       IN ZeroLow(moved, seg_shift)

\* for (i = 0; i < n; ++i) segments[i] = segments[i + seg_shift]
RECURSIVE ShrMove(_, _, _, _)
ShrMove(s, i, n, seg_shift) ==
  IF i >= n THEN s ELSE ShrMove(Put(s, i, At(s, i + seg_shift)), i + 1, n, seg_shift)

\* for (i = 0; i < n; ++i)
\*   segments[i] = segments[i + seg_shift] >> bit_shift | segments[i + seg_shift + 1] << (64 - bit_shift)
RECURSIVE ShrCombine(_, _, _, _, _)
ShrCombine(s, i, n, seg_shift, bit_shift) ==
  IF i >= n THEN s
  ELSE ShrCombine(Put(s, i, BitOr(Shr(At(s, i + seg_shift), bit_shift),
                                  Shl(At(s, i + seg_shift + 1), ChunkBits - bit_shift))),
                  i + 1, n, seg_shift, bit_shift)

\* for (i = length() - seg_shift; i < length(); ++i) segments[i] = 0
ZeroHigh(s, seg_shift) == FillLoop(s, Len(s) - seg_shift, Len(s), 0)

Fixed_Shr(s, shift) ==
  IF shift >= Bits THEN Fixed_Default
  ELSE LET seg_shift == shift \div ChunkBits
           bit_shift == shift % ChunkBits
           moved == IF bit_shift = 0
                    THEN ShrMove(s, 0, NUM_SEGMENTS - seg_shift, seg_shift)
                    ELSE LET c == ShrCombine(s, 0, NUM_SEGMENTS - seg_shift - 1,
                                             seg_shift, bit_shift)
                         IN Put(c, NUM_SEGMENTS - seg_shift - 1,
                                Shr(At(c, NUM_SEGMENTS - 1), bit_shift))
       IN ZeroHigh(moved, seg_shift)

\* for (i = 0; i < length(); ++i) if (++segments[i] != 0) break;
RECURSIVE Fixed_IncLoop(_, _)
Fixed_IncLoop(s, i) ==
  IF i >= NUM_SEGMENTS THEN s
  ELSE LET v == Wrap(At(s, i) + 1)
       IN IF v # 0 THEN Put(s, i, v) ELSE Fixed_IncLoop(Put(s, i, v), i + 1)

Fixed_Inc(s) == Fixed_IncLoop(s, 0)

\* for (i = 0; i < length(); ++i) if (segments[i]-- != 0) break;
RECURSIVE Fixed_DecLoop(_, _)
Fixed_DecLoop(s, i) ==
  IF i >= NUM_SEGMENTS THEN s
  ELSE LET old == At(s, i)
           s1 == Put(s, i, Wrap(old - 1 + Base))
       IN IF old # 0 THEN s1 ELSE Fixed_DecLoop(s1, i + 1)

Fixed_Dec(s) == Fixed_DecLoop(s, 0)

\* operator<=>: -1 less, 0 equal, 1 greater, from the most-significant segment down.
RECURSIVE CmpFrom(_, _, _)
CmpFrom(s, other, i) ==
  IF i = 0 THEN 0
  ELSE IF At(s, i - 1) < At(other, i - 1) THEN -1
  ELSE IF At(s, i - 1) > At(other, i - 1) THEN 1
  ELSE CmpFrom(s, other, i - 1)

Fixed_Cmp(s, other) == CmpFrom(s, other, NUM_SEGMENTS)

Fixed_Eq(s, other) == s = other

Fixed_Bool(s) == \E k \in 1..Len(s) : s[k] # 0

Fixed_Tail(s) == At(s, 0)

\* divide(): the loop body alone, one pass for the loop variable i on
\* (quotient, remainder), for a run pass by pass.
Fixed_DivPass(dividend, divisor, quotient, remainder, i) ==
  LET bit_idx    == i - 1
      seg_idx    == bit_idx \div ChunkBits
      bit_in_seg == bit_idx % ChunkBits
      r1 == Fixed_Shl(remainder, 1)
      r2 == IF Bit(At(dividend, seg_idx), bit_in_seg) = 1
            THEN Put(r1, 0, BitOr(At(r1, 0), 1)) ELSE r1
  IN IF Fixed_Cmp(r2, divisor) >= 0
     THEN [quotient  |-> Put(quotient, seg_idx,
                             BitOr(At(quotient, seg_idx), Shl(1, bit_in_seg))),
           remainder |-> Fixed_Sub(r2, divisor)]
     ELSE [quotient |-> quotient, remainder |-> r2]

\* divide(): the loop over i = Bits .. 1 on (quotient, remainder).
RECURSIVE Fixed_DivLoop(_, _, _, _, _)
Fixed_DivLoop(dividend, divisor, quotient, remainder, i) ==
  IF i = 0 THEN [threw |-> FALSE, first |-> quotient, second |-> remainder]
  ELSE LET bit_idx    == i - 1
           seg_idx    == bit_idx \div ChunkBits
           bit_in_seg == bit_idx % ChunkBits
           r1 == Fixed_Shl(remainder, 1)
           r2 == IF Bit(At(dividend, seg_idx), bit_in_seg) = 1
                 THEN Put(r1, 0, BitOr(At(r1, 0), 1)) ELSE r1
       IN IF Fixed_Cmp(r2, divisor) >= 0
          THEN Fixed_DivLoop(dividend, divisor,
                             Put(quotient, seg_idx,
                                 BitOr(At(quotient, seg_idx), Shl(1, bit_in_seg))),
                             Fixed_Sub(r2, divisor), i - 1)
          ELSE Fixed_DivLoop(dividend, divisor, quotient, r2, i - 1)

\* threw: std::domain_error("Division by zero"), no pair is returned.
Fixed_divide(dividend, divisor) ==
  IF ~Fixed_Bool(divisor)
  THEN [threw |-> TRUE, first |-> <<>>, second |-> <<>>]
  ELSE Fixed_DivLoop(dividend, divisor, Fixed_Default, Fixed_Default, Bits)

---------------------------------------------------------------------------
(* DynamicInteger.  length() is Len(segments).                             *)

\* while (segments.size() > 1 && segments.back() == 0) segments.pop_back();
RECURSIVE trim(_)
trim(s) ==
  IF Len(s) > 1 /\ s[Len(s)] = 0 THEN trim(SubSeq(s, 1, Len(s) - 1)) ELSE s

Dynamic_Default == <<0>>

\* DynamicInteger(std::integral auto value): only segment 0 is populated.
Dynamic_Construct(v) == <<Wrap(v + Base)>>

RECURSIVE Dynamic_NegLoop(_, _, _, _)
Dynamic_NegLoop(result, s, i, borrow) ==
  IF i >= Len(s) THEN result
  ELSE LET r == sub_with_borrow(0, At(s, i), borrow)
       IN Dynamic_NegLoop(Put(result, i, r.result), s, i + 1, r.borrow)

Dynamic_Neg(s) == trim(Dynamic_NegLoop(Resize(Dynamic_Default, Len(s)), s, 0, FALSE))

\* operator~ trimming its result, as the other operators do.
Dynamic_Not_Trim(s) ==
  trim(NotLoop(Resize(Dynamic_Default, Len(s)), s, 0))

\* operator~ returns result as filled by the loop.
Dynamic_Not(s) ==
  NotLoop(Resize(Dynamic_Default, Len(s)), s, 0)

\* The loop of operator+=; yields the segments and the final carry.
RECURSIVE Dynamic_AddLoop(_, _, _, _, _)
Dynamic_AddLoop(s, other, i, max_len, carry) ==
  IF i >= max_len THEN [segments |-> s, carry |-> carry]
  ELSE LET other_val == IF i < Len(other) THEN At(other, i) ELSE 0
           r == add_with_carry(At(s, i), other_val, carry)
       IN Dynamic_AddLoop(Put(s, i, r.result), other, i + 1, max_len, r.carry)

\* operator+= without the push_back(1) on a final carry.
Dynamic_Add_NoGrow(s, other) ==
  LET max_len == Max(Len(s), Len(other))
      r == Dynamic_AddLoop(Resize(s, max_len), other, 0, max_len, FALSE)
  IN trim(r.segments)

Dynamic_Add(s, other) ==
  LET max_len == Max(Len(s), Len(other))
      r == Dynamic_AddLoop(Resize(s, max_len), other, 0, max_len, FALSE)
  IN trim(IF r.carry THEN Append(r.segments, 1) ELSE r.segments)

RECURSIVE Dynamic_SubLoop(_, _, _, _, _)
Dynamic_SubLoop(s, other, i, max_len, borrow) ==
  IF i >= max_len THEN s
  ELSE LET other_val == IF i < Len(other) THEN At(other, i) ELSE 0
           r == sub_with_borrow(At(s, i), other_val, borrow)
       IN Dynamic_SubLoop(Put(s, i, r.result), other, i + 1, max_len, r.borrow)

\* operator-= without the resize to the longer operand.
Dynamic_Sub_NoResize(s, other) ==
  trim(Dynamic_SubLoop(s, other, 0, Len(s), FALSE))

Dynamic_Sub(s, other) ==
  LET max_len == Max(Len(s), Len(other))
  IN trim(Dynamic_SubLoop(Resize(s, max_len), other, 0, max_len, FALSE))

\* The inner loop of operator*=; yields the row's result and its last carry.
RECURSIVE Dynamic_MulInner(_, _, _, _, _, _)
Dynamic_MulInner(result, s, other, i, j, carry) ==
  IF j >= Len(other) \/ i + j >= Len(result)
  THEN [segments |-> result, carry |-> carry]
  ELSE LET m  == mul128(At(s, i), At(other, j))
           c1 == add_with_carry(m.lo, carry, FALSE)
           c2 == add_with_carry(c1.result, At(result, i + j), FALSE)
       IN Dynamic_MulInner(Put(result, i + j, c2.result), s, other, i, j + 1,
                           Wrap(m.hi + (IF c1.carry THEN 1 ELSE 0)
                                     + (IF c2.carry THEN 1 ELSE 0)))

RECURSIVE Dynamic_MulOuter(_, _, _, _)
Dynamic_MulOuter(result, s, other, i) ==
  IF i >= Len(s) THEN result
  ELSE LET row == Dynamic_MulInner(result, s, other, i, 0, 0)
           stored == IF i + Len(other) < Len(row.segments)
                     THEN Put(row.segments, i + Len(other), row.carry)
                     ELSE row.segments
       IN Dynamic_MulOuter(stored, s, other, i + 1)

\* operator*= with the result store sized to the longer operand only.
Dynamic_Mul_ShortStore(s, other) ==
  trim(Dynamic_MulOuter(Resize(Dynamic_Default, Max(Len(s), Len(other))), s, other, 0))

Dynamic_Mul(s, other) ==
  trim(Dynamic_MulOuter(Resize(Dynamic_Default, Len(s) + Len(other)), s, other, 0))

\* operator&= resizing to the longer operand, as operator|= does.
Dynamic_And_MaxLen(s, other) ==
  LET r == Resize(s, Max(Len(s), Len(other)))
  IN trim(BitwiseLoop("&", r, other, 0, Min(Len(s), Len(other))))

Dynamic_And(s, other) ==
  LET min_len == Min(Len(s), Len(other))
  IN trim(BitwiseLoop("&", Resize(s, min_len), other, 0, min_len))

\* operator|= without the resize: only the segments the receiver has are combined.
Dynamic_Or_NoResize(s, other) ==
  trim(BitwiseLoop("|", s, other, 0, Min(Len(s), Len(other))))

Dynamic_Or(s, other) ==
  LET r == Resize(s, Max(Len(s), Len(other)))
  IN trim(BitwiseLoop("|", r, other, 0, Len(other)))

Dynamic_Xor(s, other) ==
  LET r == Resize(s, Max(Len(s), Len(other)))
  IN trim(BitwiseLoop("^", r, other, 0, Len(other)))

\* for (i = new_len - 1; i > seg_shift; --i) { src_idx = i - seg_shift; ... }
RECURSIVE Dynamic_ShlCombine(_, _, _, _)
Dynamic_ShlCombine(s, i, seg_shift, bit_shift) ==
  IF i <= seg_shift THEN s
  ELSE LET src_idx == i - seg_shift
           hi == Shl(At(s, src_idx), bit_shift)
           v  == IF src_idx > 0
                 THEN BitOr(hi, Shr(At(s, src_idx - 1), ChunkBits - bit_shift))
                 ELSE hi
       IN Dynamic_ShlCombine(Put(s, i, v), i - 1, seg_shift, bit_shift)

\* operator<<= without the extra segment for the bits shifted out of the top.
Dynamic_Shl_NoExtra(s, shift) ==
  IF shift = 0 THEN s
  ELSE LET seg_shift == shift \div ChunkBits
           bit_shift == shift % ChunkBits
           new_len == Len(s) + seg_shift
           r == Resize(s, new_len)
           moved == IF bit_shift = 0
                    THEN ShlMove(r, new_len - 1, seg_shift)
                    ELSE LET c == Dynamic_ShlCombine(r, new_len - 1, seg_shift, bit_shift)
                         IN Put(c, seg_shift, Shl(At(c, 0), bit_shift))
       IN trim(ZeroLow(moved, seg_shift))

Dynamic_Shl(s, shift) ==
  IF shift = 0 THEN s
  ELSE LET seg_shift == shift \div ChunkBits
           bit_shift == shift % ChunkBits
           old_len == Len(s)
           new_len == old_len + seg_shift
                      + (IF bit_shift > 0 /\ old_len > 0
                            /\ Shr(At(s, old_len - 1), ChunkBits - bit_shift) # 0
                         THEN 1 ELSE 0)
           r == Resize(s, new_len)
           moved == IF bit_shift = 0
                    THEN ShlMove(r, new_len - 1, seg_shift)
                    ELSE LET c == Dynamic_ShlCombine(r, new_len - 1, seg_shift, bit_shift)
                         IN Put(c, seg_shift, Shl(At(c, 0), bit_shift))
       IN trim(ZeroLow(moved, seg_shift))

Dynamic_Shr(s, shift) ==
  IF shift = 0 THEN s
  ELSE LET seg_shift == shift \div ChunkBits
           bit_shift == shift % ChunkBits
       IN IF seg_shift >= Len(s) THEN <<0>>
          ELSE LET new_len == Len(s) - seg_shift
                   moved == IF bit_shift = 0
                            THEN ShrMove(s, 0, new_len, seg_shift)
                            ELSE LET c == ShrCombine(s, 0, new_len - 1, seg_shift, bit_shift)
                                 IN Put(c, new_len - 1, Shr(At(c, Len(s) - 1), bit_shift))
               IN trim(Resize(moved, new_len))

\* for (i = 0; i < length(); ++i) if (++segments[i] != 0) return *this;
\* segments.push_back(1);
\* operator++ without the push_back(1) after a carry out of the last segment.
RECURSIVE Dynamic_IncLoop_NoGrow(_, _)
Dynamic_IncLoop_NoGrow(s, i) ==
  IF i >= Len(s) THEN s
  ELSE LET v == Wrap(At(s, i) + 1)
       IN IF v # 0 THEN Put(s, i, v) ELSE Dynamic_IncLoop_NoGrow(Put(s, i, v), i + 1)

RECURSIVE Dynamic_IncLoop(_, _)
Dynamic_IncLoop(s, i) ==
  IF i >= Len(s) THEN Append(s, 1)
  ELSE LET v == Wrap(At(s, i) + 1)
       IN IF v # 0 THEN Put(s, i, v) ELSE Dynamic_IncLoop(Put(s, i, v), i + 1)

Dynamic_Inc(s) == Dynamic_IncLoop(s, 0)

\* operator-- growing by an all-ones segment on a borrow out of the last
\* segment, as operator++ grows on a carry.
RECURSIVE Dynamic_DecLoop_Grow(_, _)
Dynamic_DecLoop_Grow(s, i) ==
  IF i >= Len(s) THEN Append(s, ChunkMax)
  ELSE LET old == At(s, i)
           s1 == Put(s, i, Wrap(old - 1 + Base))
       IN IF old # 0 THEN trim(s1) ELSE Dynamic_DecLoop_Grow(s1, i + 1)

\* for (i = 0; i < length(); ++i) if (segments[i]-- != 0) { trim(); return *this; }
\* trim();
RECURSIVE Dynamic_DecLoop(_, _)
Dynamic_DecLoop(s, i) ==
  IF i >= Len(s) THEN trim(s)
  ELSE LET old == At(s, i)
           s1 == Put(s, i, Wrap(old - 1 + Base))
       IN IF old # 0 THEN trim(s1) ELSE Dynamic_DecLoop(s1, i + 1)

Dynamic_Dec(s) == Dynamic_DecLoop(s, 0)

Dynamic_Cmp(s, other) ==
  IF Len(s) # Len(other)
  THEN (IF Len(s) < Len(other) THEN -1 ELSE 1)
  ELSE CmpFrom(s, other, Len(s))

Dynamic_Eq(s, other) == s = other

Dynamic_Bool(s) == \E k \in 1..Len(s) : s[k] # 0

Dynamic_Tail(s) == At(s, 0)

\* divide(): the loop body alone, one pass for the loop variable i on
\* (quotient, remainder), for a run pass by pass.
Dynamic_DivPass(dividend, divisor, quotient, remainder, i) ==
  LET bit_idx    == i - 1
      seg_idx    == bit_idx \div ChunkBits
      bit_in_seg == bit_idx % ChunkBits
      r1 == Dynamic_Shl(remainder, 1)
      r2 == IF seg_idx < Len(dividend) /\ Bit(At(dividend, seg_idx), bit_in_seg) = 1
            THEN Put(r1, 0, BitOr(At(r1, 0), 1)) ELSE r1
  IN IF Dynamic_Cmp(r2, divisor) >= 0
     THEN LET q == IF seg_idx >= Len(quotient)
                   THEN Resize(quotient, seg_idx + 1) ELSE quotient
          IN [quotient  |-> Put(q, seg_idx, BitOr(At(q, seg_idx), Shl(1, bit_in_seg))),
              remainder |-> Dynamic_Sub(r2, divisor)]
     ELSE [quotient |-> quotient, remainder |-> r2]

\* divide(): the loop over i = total_bits .. 1 on (quotient, remainder).
RECURSIVE Dynamic_DivLoop(_, _, _, _, _)
Dynamic_DivLoop(dividend, divisor, quotient, remainder, i) ==
  IF i = 0 THEN [threw |-> FALSE, first |-> trim(quotient), second |-> trim(remainder)]
  ELSE LET bit_idx    == i - 1
           seg_idx    == bit_idx \div ChunkBits
           bit_in_seg == bit_idx % ChunkBits
           r1 == Dynamic_Shl(remainder, 1)
           r2 == IF seg_idx < Len(dividend) /\ Bit(At(dividend, seg_idx), bit_in_seg) = 1
                 THEN Put(r1, 0, BitOr(At(r1, 0), 1)) ELSE r1
       IN IF Dynamic_Cmp(r2, divisor) >= 0
          THEN LET q == IF seg_idx >= Len(quotient)
                        THEN Resize(quotient, seg_idx + 1) ELSE quotient
               IN Dynamic_DivLoop(dividend, divisor,
                                  Put(q, seg_idx, BitOr(At(q, seg_idx), Shl(1, bit_in_seg))),
                                  Dynamic_Sub(r2, divisor), i - 1)
          ELSE Dynamic_DivLoop(dividend, divisor, quotient, r2, i - 1)

\* divide() looping over the bits below the highest non-zero segment only.
Dynamic_total_bits_Significant(dividend) == Len(trim(dividend)) * ChunkBits

\* size_t total_bits = dividend.bits();
Dynamic_total_bits(dividend) == Len(dividend) * ChunkBits

\* divide() testing the divisor against DynamicInteger(0) instead of its bool.
Dynamic_divide_EqZero(dividend, divisor) ==
  IF Dynamic_Eq(divisor, Dynamic_Construct(0))
  THEN [threw |-> TRUE, first |-> <<>>, second |-> <<>>]
  ELSE Dynamic_DivLoop(dividend, divisor, Dynamic_Default, Dynamic_Default,
                       Dynamic_total_bits(dividend))

Dynamic_divide(dividend, divisor) ==
  IF ~Dynamic_Bool(divisor)
  THEN [threw |-> TRUE, first |-> <<>>, second |-> <<>>]
  ELSE Dynamic_DivLoop(dividend, divisor, Dynamic_Default, Dynamic_Default,
                       Dynamic_total_bits(dividend))

---------------------------------------------------------------------------
(* The operations both classes share, selected by the class.               *)

Construct(kind, v) == IF kind = "Fixed" THEN Fixed_Construct(v) ELSE Dynamic_Construct(v)

length(s) == Len(s)

bits(s) == length(s) * ChunkBits

tail(kind, s) == IF kind = "Fixed" THEN Fixed_Tail(s) ELSE Dynamic_Tail(s)

Neg(kind, s) == IF kind = "Fixed" THEN Fixed_Neg(s) ELSE Dynamic_Neg(s)

Not(kind, s) == IF kind = "Fixed" THEN Fixed_Not(s) ELSE Dynamic_Not(s)

Add(kind, s, o) == IF kind = "Fixed" THEN Fixed_Add(s, o) ELSE Dynamic_Add(s, o)

Sub(kind, s, o) == IF kind = "Fixed" THEN Fixed_Sub(s, o) ELSE Dynamic_Sub(s, o)

Mul(kind, s, o) == IF kind = "Fixed" THEN Fixed_Mul(s, o) ELSE Dynamic_Mul(s, o)

divide(kind, s, o) == IF kind = "Fixed" THEN Fixed_divide(s, o) ELSE Dynamic_divide(s, o)

And(kind, s, o) == IF kind = "Fixed" THEN Fixed_And(s, o) ELSE Dynamic_And(s, o)

Or(kind, s, o) == IF kind = "Fixed" THEN Fixed_Or(s, o) ELSE Dynamic_Or(s, o)

Xor(kind, s, o) == IF kind = "Fixed" THEN Fixed_Xor(s, o) ELSE Dynamic_Xor(s, o)

ShiftLeft(kind, s, n) == IF kind = "Fixed" THEN Fixed_Shl(s, n) ELSE Dynamic_Shl(s, n)

ShiftRight(kind, s, n) == IF kind = "Fixed" THEN Fixed_Shr(s, n) ELSE Dynamic_Shr(s, n)

Inc(kind, s) == IF kind = "Fixed" THEN Fixed_Inc(s) ELSE Dynamic_Inc(s)

Dec(kind, s) == IF kind = "Fixed" THEN Fixed_Dec(s) ELSE Dynamic_Dec(s)

Cmp(kind, s, o) == IF kind = "Fixed" THEN Fixed_Cmp(s, o) ELSE Dynamic_Cmp(s, o)

Eq(kind, s, o) == IF kind = "Fixed" THEN Fixed_Eq(s, o) ELSE Dynamic_Eq(s, o)

Bool(kind, s) == IF kind = "Fixed" THEN Fixed_Bool(s) ELSE Dynamic_Bool(s)

---------------------------------------------------------------------------
(* Decimal codec.  A string is a sequence of character codes.              *)

Char0 == 48

Char9 == 57

RECURSIVE Reverse(_)
Reverse(s) == IF s = <<>> THEN <<>> ELSE Append(Reverse(Tail(s)), Head(s))

\* The loop body dividing temp by eight instead of ten.
to_string_pass_DivEight(kind, temp, result) ==
  LET ten   == Construct(kind, 10)
      digit == divide(kind, temp, ten).second
  IN [temp   |-> divide(kind, temp, Construct(kind, 8)).first,
      result |-> Append(result, Char0 + tail(kind, digit))]

\* The loop body alone, one pass on (temp, result), for a run pass by pass:
\* digit = temp % ten; result += '0' + digit.tail(); temp /= ten;
to_string_pass(kind, temp, result) ==
  LET ten   == Construct(kind, 10)
      digit == divide(kind, temp, ten).second
  IN [temp   |-> divide(kind, temp, ten).first,
      result |-> Append(result, Char0 + tail(kind, digit))]

\* while (temp) { digit = temp % ten; result += '0' + digit.tail(); temp /= ten; }
RECURSIVE to_string_loop(_, _, _)
to_string_loop(kind, temp, result) ==
  IF ~Bool(kind, temp) THEN result
  ELSE LET ten   == Construct(kind, 10)
           digit == divide(kind, temp, ten).second
       IN to_string_loop(kind, divide(kind, temp, ten).first,
                         Append(result, Char0 + tail(kind, digit)))

\* to_string without the std::reverse.
to_string_NoReverse(kind, v) ==
  IF ~Bool(kind, v) THEN <<Char0>>
  ELSE to_string_loop(kind, v, <<>>)

to_string(kind, v) ==
  IF ~Bool(kind, v) THEN <<Char0>>
  ELSE Reverse(to_string_loop(kind, v, <<>>))

\* The loop of from_string adding the digit before multiplying by ten.
RECURSIVE from_string_loop_AddFirst(_, _)
from_string_loop_AddFirst(kind, st) ==
  IF st.from = <<>> THEN [has_value |-> TRUE, val |-> st.result]
  ELSE LET c == Head(st.from)
       IN IF c < Char0 \/ c > Char9
          THEN [has_value |-> FALSE, val |-> <<>>]
          ELSE from_string_loop_AddFirst(kind,
                 [from   |-> Tail(st.from),
                  result |-> Mul(kind, Add(kind, st.result, Construct(kind, c - Char0)),
                                 Construct(kind, 10))])

\* for (char c : from) { if (c < '0' || c > '9') return nullopt;
\*                       result *= ten; result += T(c - '0'); }
\* st holds the loop's state: the characters still to read and result.
RECURSIVE from_string_loop(_, _)
from_string_loop(kind, st) ==
  IF st.from = <<>> THEN [has_value |-> TRUE, val |-> st.result]
  ELSE LET c == Head(st.from)
       IN IF c < Char0 \/ c > Char9
          THEN [has_value |-> FALSE, val |-> <<>>]
          ELSE from_string_loop(kind,
                 [from   |-> Tail(st.from),
                  result |-> Add(kind, Mul(kind, st.result, Construct(kind, 10)),
                                 Construct(kind, c - Char0))])

\* from_string without the from.empty() test.
from_string_NoEmptyTest(kind, from) ==
  from_string_loop(kind, [from |-> from, result |-> Construct(kind, 0)])

from_string(kind, from) ==
  IF from = <<>> THEN [has_value |-> FALSE, val |-> <<>>]
  ELSE from_string_loop(kind, [from |-> from, result |-> Construct(kind, 0)])

---------------------------------------------------------------------------
(* The program under a driver.  A receiver a and an argument other of      *)
(* class kind are constructed from native integers and widened by public   *)
(* operations (<<=, |=, ~); then one public operation is called on the     *)
(* receiver, with the argument if it takes one.                            *)

\* Longest receiver the driver builds in Dynamic mode.
MaxLen == 2

\* Largest shift amount the driver passes.
MaxShift == 9

Kinds == {"Fixed", "Dynamic"}

\* Native integers handed to the constructors: signed ones may be negative.
NativeVals == {-8, -2, -1, 0, 1, 7, 8, 14, 15}

UnsignedVals == {v \in NativeVals : v >= 0}

VARIABLES
  kind,    \* class of the receiver and the argument: "Fixed" or "Dynamic"
  a,       \* the receiver's segments
  old,     \* the receiver's segments when the operation was called
  pc,      \* "build" while the driver prepares the operands, then "done"
  op,      \* the operation called
  other,   \* the argument's segments; <<>> once an operation without one was called
  shift,   \* the size_t argument of a shift
  res,     \* what the operation returned
  text,    \* the std::string_view argument of from_string
  frame,   \* the locals of a function that is run pass by pass
  passes   \* the passes its loop has completed (not a variable of the code)

vars == <<kind, a, old, pc, op, other, shift, res, text, frame, passes>>

\* What an operation returns: threw for the domain error, val for a value
\* or a string, val2 for the second of a pair, n for a bool (0/1), an
\* ordering (-1/0/1) or a size.
Ret(threw, val, val2, n) == [threw |-> threw, val |-> val, val2 |-> val2, n |-> n]

NoRet == Ret(FALSE, <<>>, <<>>, 0)

Value(v) == Ret(FALSE, v, <<>>, 0)

Threw == Ret(TRUE, <<>>, <<>>, 0)

Number(n) == Ret(FALSE, <<>>, <<>>, n)

\* No function is being run pass by pass.
NoFrame == [fn |-> "none"]

Init ==
  /\ kind \in Kinds
  /\ \E v \in NativeVals : a = Construct(kind, v)
  /\ \E w \in NativeVals : other = Construct(kind, w)
  /\ old = a
  /\ pc = "build"
  /\ op = "construct"
  /\ shift = 0
  /\ res = NoRet
  /\ text = <<>>
  /\ frame = NoFrame
  /\ passes = 0

\* x <<= ChunkBits; x |= T(z);
Widen(kind_, x, z) == Or(kind_, ShiftLeft(kind_, x, ChunkBits), Construct(kind_, z))

ExtendReceiver(z) ==
  /\ pc = "build"
  /\ kind = "Dynamic" => Len(a) < MaxLen
  /\ a' = Widen(kind, a, z)
  /\ old' = a'
  /\ UNCHANGED <<kind, pc, op, other, shift, res, text, frame, passes>>

\* a = ~a;
ComplementReceiver ==
  /\ pc = "build"
  /\ a' = Not(kind, a)
  /\ old' = a'
  /\ UNCHANGED <<kind, pc, op, other, shift, res, text, frame, passes>>

\* The argument is built no wider than a FixedInteger<Bits>.
ExtendArgument(z) ==
  /\ pc = "build"
  /\ kind = "Dynamic" => Len(other) < NUM_SEGMENTS
  /\ other' = Widen(kind, other, z)
  /\ UNCHANGED <<kind, a, old, pc, op, shift, res, text, frame, passes>>

\* other = ~other;
ComplementArgument ==
  /\ pc = "build"
  /\ other' = Not(kind, other)
  /\ UNCHANGED <<kind, a, old, pc, op, shift, res, text, frame, passes>>

\* An operation called with argument o and shift sh that stores v in the
\* receiver and returns r.
Mutate(name, o, sh, v, r) ==
  /\ pc = "build"
  /\ pc' = "done"
  /\ op' = name
  /\ other' = o
  /\ shift' = sh
  /\ res' = r
  /\ old' = a
  /\ a' = v
  /\ UNCHANGED <<kind, text, frame, passes>>

\* An operation that leaves the receiver alone and returns r.
Call(name, o, sh, r) == Mutate(name, o, sh, a, r)

OpAdd == Call("+", other, 0, Value(Add(kind, a, other)))

OpSub == Call("-", other, 0, Value(Sub(kind, a, other)))

OpMul == Call("*", other, 0, Value(Mul(kind, a, other)))

\* operator/ : return divide(*this, other).first;
OpDiv ==
  LET d == divide(kind, a, other)
  IN Call("/", other, 0, IF d.threw THEN Threw ELSE Value(d.first))

\* operator% : return divide(*this, other).second;
OpMod ==
  LET d == divide(kind, a, other)
  IN Call("%", other, 0, IF d.threw THEN Threw ELSE Value(d.second))

\* operator/= : *this = divide(*this, other).first; return *this;
OpDivAssign ==
  LET d == divide(kind, a, other)
  IN Mutate("/=", other, 0, IF d.threw THEN a ELSE d.first,
            IF d.threw THEN Threw ELSE Value(d.first))

\* operator%= : *this = divide(*this, other).second; return *this;
OpModAssign ==
  LET d == divide(kind, a, other)
  IN Mutate("%=", other, 0, IF d.threw THEN a ELSE d.second,
            IF d.threw THEN Threw ELSE Value(d.second))

OpAnd == Call("&", other, 0, Value(And(kind, a, other)))

OpOr == Call("|", other, 0, Value(Or(kind, a, other)))

OpXor == Call("^", other, 0, Value(Xor(kind, a, other)))

OpShl(sh) == Call("<<", <<>>, sh, Value(ShiftLeft(kind, a, sh)))

OpShr(sh) == Call(">>", <<>>, sh, Value(ShiftRight(kind, a, sh)))

OpNeg == Call("neg", <<>>, 0, Value(Neg(kind, a)))

OpNot == Call("~", <<>>, 0, Value(Not(kind, a)))

\* ++a
OpInc == Mutate("++", <<>>, 0, Inc(kind, a), Value(Inc(kind, a)))

\* --a
OpDec == Mutate("--", <<>>, 0, Dec(kind, a), Value(Dec(kind, a)))

OpCmp == Call("<=>", other, 0, Number(Cmp(kind, a, other)))

OpEq == Call("==", other, 0, Number(IF Eq(kind, a, other) THEN 1 ELSE 0))

OpBool == Call("bool", <<>>, 0, Number(IF Bool(kind, a) THEN 1 ELSE 0))

OpToString == Call("to_string", <<>>, 0, Value(to_string(kind, a)))

Next ==
  \/ pc = "build" /\ \E z \in UnsignedVals : ExtendReceiver(z)
  \/ ComplementReceiver
  \/ pc = "build" /\ \E z \in UnsignedVals : ExtendArgument(z)
  \/ ComplementArgument
  \/ OpAdd
  \/ OpSub
  \/ OpMul
  \/ OpDiv
  \/ OpMod
  \/ OpDivAssign
  \/ OpModAssign
  \/ OpAnd
  \/ OpOr
  \/ OpXor
  \/ pc = "build" /\ \E sh \in 0..MaxShift : OpShl(sh)
  \/ pc = "build" /\ \E sh \in 0..MaxShift : OpShr(sh)
  \/ OpNeg
  \/ OpNot
  \/ OpInc
  \/ OpDec
  \/ OpCmp
  \/ OpEq
  \/ OpBool
  \/ OpToString

Spec == Init /\ [][Next]_vars

---------------------------------------------------------------------------
(* The codec under a driver of its own: from_string<T> is handed a string  *)
(* and its result is kept.                                                 *)

\* Longest string handed to from_string.
MaxStr == 3

\* Characters the strings are made of: ' ', '+', '-', '/', '0', '1', '5',
\* '9', ':' ('/' and ':' are the neighbours of '0' and '9').
StrChars == {32, 43, 45, 47, 48, 49, 53, 57, 58}

RECURSIVE StringsOfLen(_)
StringsOfLen(n) ==
  IF n = 0 THEN {<<>>}
  ELSE {Append(s, c) : s \in StringsOfLen(n - 1), c \in StrChars}

Strings == UNION {StringsOfLen(n) : n \in 0..MaxStr}

\* What from_string returns: n = 1 with the value, or n = 0 for std::nullopt.
Optional(parsed) == Ret(FALSE, parsed.val, <<>>, IF parsed.has_value THEN 1 ELSE 0)

CodecInit ==
  /\ kind \in Kinds
  /\ text \in Strings
  /\ a = Construct(kind, 0)
  /\ other = <<>>
  /\ old = a
  /\ pc = "build"
  /\ op = "construct"
  /\ shift = 0
  /\ res = NoRet
  /\ frame = NoFrame
  /\ passes = 0

\* from_string<T>(text)
OpFromString ==
  /\ pc = "build"
  /\ pc' = "done"
  /\ op' = "from_string"
  /\ res' = Optional(from_string(kind, text))
  /\ UNCHANGED <<kind, a, old, other, shift, text, frame, passes>>

CodecNext == OpFromString

CodecSpec == CodecInit /\ [][CodecNext]_vars

---------------------------------------------------------------------------
(* divide() run pass by pass: the driver builds a dividend a and a divisor *)
(* other as above, divide(a, other) is entered, and every pass of its loop *)
(* is a step.  frame holds its locals quotient, remainder and i.           *)

Default(kind_) == IF kind_ = "Fixed" THEN Fixed_Default ELSE Dynamic_Default

\* The value the loop variable i starts from.
total_bits(kind_, dividend) ==
  IF kind_ = "Fixed" THEN Bits ELSE Dynamic_total_bits(dividend)

DivPassOf(kind_, dividend, divisor, quotient, remainder, i) ==
  IF kind_ = "Fixed" THEN Fixed_DivPass(dividend, divisor, quotient, remainder, i)
  ELSE Dynamic_DivPass(dividend, divisor, quotient, remainder, i)

DivFrame(quotient, remainder, i) ==
  [fn |-> "divide", quotient |-> quotient, remainder |-> remainder, i |-> i]

\* if (!divisor) throw std::domain_error(...); quotient, remainder; i = total_bits
DivEnter ==
  /\ pc = "build"
  /\ op' = "divide"
  /\ old' = a
  /\ IF ~Bool(kind, other)
     THEN pc' = "done" /\ res' = Threw /\ frame' = frame
     ELSE /\ pc' = "divide"
          /\ res' = NoRet
          /\ frame' = DivFrame(Default(kind), Default(kind), total_bits(kind, a))
  /\ UNCHANGED <<kind, a, other, shift, text, passes>>

\* One pass of for (size_t i = total_bits; i > 0; --i) { ... }
DivPass ==
  /\ pc = "divide"
  /\ frame.i > 0
  /\ LET pass == DivPassOf(kind, old, other, frame.quotient, frame.remainder, frame.i)
     IN frame' = DivFrame(pass.quotient, pass.remainder, frame.i - 1)
  /\ passes' = passes + 1
  /\ UNCHANGED <<kind, a, old, pc, op, other, shift, res, text>>

\* The loop is left: (DynamicInteger: quotient.trim(); remainder.trim();)
\* return {quotient, remainder};
DivReturn ==
  /\ pc = "divide"
  /\ frame.i = 0
  /\ pc' = "done"
  /\ res' = IF kind = "Fixed"
            THEN Ret(FALSE, frame.quotient, frame.remainder, 0)
            ELSE Ret(FALSE, trim(frame.quotient), trim(frame.remainder), 0)
  /\ UNCHANGED <<kind, a, old, op, other, shift, text, frame, passes>>

DivideNext ==
  \/ pc = "build" /\ \E z \in UnsignedVals : ExtendReceiver(z)
  \/ ComplementReceiver
  \/ pc = "build" /\ \E z \in UnsignedVals : ExtendArgument(z)
  \/ ComplementArgument
  \/ DivEnter
  \/ DivPass
  \/ DivReturn

\* A step of a call that was entered: it completes a pass or returns.
Running ==
  /\ pc \in {"divide", "to_string"}
  /\ pc' \in {pc, "done"}
  /\ passes' \in {passes, passes + 1}

\* A call that was entered keeps running: no pass waits for anything.
DivideSpec == Init /\ [][DivideNext]_vars /\ WF_<<pc, passes>>(Running)

---------------------------------------------------------------------------
(* to_string() run pass by pass on a value a the driver builds: every pass *)
(* of its while loop is a step.  frame holds its locals temp and result.   *)

ToStrFrame(temp, result) == [fn |-> "to_string", temp |-> temp, result |-> result]

\* if (!value) return "0"; std::string result; temp = value;
ToStrEnter ==
  /\ pc = "build"
  /\ op' = "to_string"
  /\ old' = a
  /\ other' = <<>>
  /\ IF ~Bool(kind, a)
     THEN pc' = "done" /\ res' = Value(<<Char0>>) /\ frame' = frame
     ELSE pc' = "to_string" /\ res' = NoRet /\ frame' = ToStrFrame(a, <<>>)
  /\ UNCHANGED <<kind, a, shift, text, passes>>

\* One pass of while (temp) { ... }
ToStrPass ==
  /\ pc = "to_string"
  /\ Bool(kind, frame.temp)
  /\ LET pass == to_string_pass(kind, frame.temp, frame.result)
     IN frame' = ToStrFrame(pass.temp, pass.result)
  /\ passes' = passes + 1
  /\ UNCHANGED <<kind, a, old, pc, op, other, shift, res, text>>

\* The loop is left: std::reverse(result.begin(), result.end()); return result;
ToStrReturn ==
  /\ pc = "to_string"
  /\ ~Bool(kind, frame.temp)
  /\ pc' = "done"
  /\ res' = Value(Reverse(frame.result))
  /\ UNCHANGED <<kind, a, old, op, other, shift, text, frame, passes>>

ToStringNext ==
  \/ pc = "build" /\ \E z \in UnsignedVals : ExtendReceiver(z)
  \/ ComplementReceiver
  \/ ToStrEnter
  \/ ToStrPass
  \/ ToStrReturn

ToStringSpec == Init /\ [][ToStringNext]_vars /\ WF_<<pc, passes>>(Running)

---------------------------------------------------------------------------
(* Properties.                                                             *)

\* The operations that return a value of class kind.
ValueOps == {"+", "-", "*", "/", "%", "/=", "%=", "&", "|", "^", "<<", ">>", "neg", "~", "++", "--"}

Returned == op \in ValueOps /\ ~res.threw

AllZero(s) == \A k \in 1..Len(s) : s[k] = 0

Trimmed(s) == Len(s) >= 1 /\ (Len(s) = 1 \/ s[Len(s)] # 0)

\* 2^Bits, the modulus of FixedInteger<Bits>.
FixedModulus == 2 ^ Bits

\* C1: for every dividend a and every divisor b with a non-zero segment, in
\* both classes, (a / b) * b + (a % b) == a under the class's operator==.
C1_DivisionRemainderLaw ==
  (op = "/" /\ ~res.threw) =>
     Eq(kind, Add(kind, Mul(kind, res.val, other), divide(kind, old, other).second), old)

\* C1, restricted to what the code does satisfy: the law holds in Fixed mode,
\* and in Dynamic mode whenever the dividend has no leading zero segment.
C1_LawOnTrimmedDividend ==
  (op = "/" /\ ~res.threw /\ (kind = "Dynamic" => Trimmed(old))) =>
     Eq(kind, Add(kind, Mul(kind, res.val, other), divide(kind, old, other).second), old)

\* C2: /, %, /= and %= with a divisor whose every segment is zero signal the
\* domain error, return nothing, and leave the receiver's segments as they were.
C2_DivideByZeroThrows ==
  (op \in {"/", "%", "/=", "%="} /\ AllZero(other)) =>
     (res.threw /\ res.val = <<>> /\ res.val2 = <<>> /\ a = old)

\* C2 witness: a failed /= on a non-zero Dynamic receiver whose divisor is
\* two zero segments long.
C2_Witness ==
  /\ kind = "Dynamic" /\ op = "/=" /\ other = <<0, 0>>
  /\ res.threw /\ Dynamic_Bool(old) /\ a = old

\* C3: Fixed a + b is (value(a) + value(b)) mod 2^Bits, the carry out of the
\* last segment dropped; in particular max() + 1 == min().
C3_FixedAddWraps ==
  (kind = "Fixed" /\ op = "+") =>
     /\ value(res.val) = (value(old) + value(other)) % FixedModulus
     /\ (old = Fixed_Not(Fixed_Construct(0)) /\ other = Fixed_Construct(1))
          => Fixed_Eq(res.val, Fixed_Construct(0))

\* C3 witness: max() + 1 has been computed and is min().
C3_Witness ==
  /\ kind = "Fixed" /\ op = "+"
  /\ old = Fixed_Not(Fixed_Construct(0)) /\ other = Fixed_Construct(1)
  /\ res.val = Fixed_Construct(0)

\* C4: Fixed a - b is (value(a) - value(b)) mod 2^Bits, the borrow out of the
\* last segment wrapping; in particular 0 - 1 is all ones and equals Fixed(-1).
C4_FixedSubWraps ==
  (kind = "Fixed" /\ op = "-") =>
     /\ value(res.val) = (value(old) - value(other) + FixedModulus) % FixedModulus
     /\ (old = Fixed_Construct(0) /\ other = Fixed_Construct(1))
          => (\A k \in 1..NUM_SEGMENTS : res.val[k] = ChunkMax)
             /\ Fixed_Eq(res.val, Fixed_Construct(-1))

\* C4 witness: 0 - 1 has been computed and is the all-ones pattern.
C4_Witness ==
  /\ kind = "Fixed" /\ op = "-"
  /\ old = Fixed_Construct(0) /\ other = Fixed_Construct(1)
  /\ res.val = Fixed_Not(Fixed_Construct(0))

\* C5: Fixed a * b is (value(a) * value(b)) mod 2^Bits: only what lands at
\* segment positions >= NUM_SEGMENTS is lost.
C5_FixedMulWraps ==
  (kind = "Fixed" /\ op = "*") =>
     value(res.val) = (value(old) * value(other)) % FixedModulus

\* C5 witness: a product that overflows 2^Bits, with a non-zero low part kept
\* and both operands two segments wide.
C5_Witness ==
  /\ kind = "Fixed" /\ op = "*"
  /\ old[2] # 0 /\ other[2] # 0
  /\ value(old) * value(other) >= FixedModulus
  /\ value(res.val) # 0

\* C6: Dynamic a * b has exactly the value value(a) * value(b), fits the
\* length(a) + length(b) segments it was given, and is trimmed.
C6_DynamicMulExact ==
  (kind = "Dynamic" /\ op = "*") =>
     /\ value(res.val) = value(old) * value(other)
     /\ Len(res.val) <= Len(old) + Len(other)
     /\ Trimmed(res.val)

\* C6 witness: two two-segment operands whose product needs all four segments.
C6_Witness ==
  /\ kind = "Dynamic" /\ op = "*"
  /\ Len(old) = 2 /\ Len(other) = 2 /\ Len(res.val) = 4

\* C7: Dynamic a + b has exactly the value value(a) + value(b); on a carry out
\* of segment max(length(a), length(b)) - 1 the result is one segment longer
\* than the longer operand and its top segment is 1.
C7_DynamicAddGrows ==
  (kind = "Dynamic" /\ op = "+") =>
     LET max_len == Max(Len(old), Len(other))
     IN /\ value(res.val) = value(old) + value(other)
        /\ (value(old) + value(other) >= Base ^ max_len)
             => (Len(res.val) = max_len + 1 /\ res.val[max_len + 1] = 1)

\* C7 witness: two length-1 operands whose sum has length 2.
C7_Witness ==
  /\ kind = "Dynamic" /\ op = "+"
  /\ Len(old) = 1 /\ Len(other) = 1 /\ Len(res.val) = 2 /\ res.val[2] = 1

\* C8: every Dynamic value, in the receiver or returned by an operator
\* (~ and unary - included), has at least one segment and a non-zero
\* most-significant segment unless it has exactly one segment.
C8_DynamicAlwaysTrimmed ==
  kind = "Dynamic" => (Trimmed(a) /\ (Returned => Trimmed(res.val)))

\* C8, for every operator but ~: given a trimmed receiver and argument, the
\* value returned is trimmed.
C8_TrimmedButForNot ==
  (kind = "Dynamic" /\ Returned /\ op # "~" /\ Trimmed(old)) => Trimmed(res.val)

\* C9: for Dynamic values obtained through the public operations, a < b iff
\* value(a) < value(b) and a == b iff value(a) = value(b).
C9_DynamicOrderIsMagnitude ==
  kind = "Dynamic" =>
     /\ op = "<=>" => /\ (res.n < 0) = (value(old) < value(other))
                      /\ (res.n = 0) = (value(old) = value(other))
     /\ op = "==" => (res.n = 1) = (value(old) = value(other))

\* C9, restricted to operands without leading zero segments.
C9_OrderOnTrimmed ==
  (kind = "Dynamic" /\ Trimmed(old) /\ Trimmed(other)) =>
     /\ op = "<=>" => /\ (res.n < 0) = (value(old) < value(other))
                      /\ (res.n = 0) = (value(old) = value(other))
     /\ op = "==" => (res.n = 1) = (value(old) = value(other))

\* C10: for every value v of either class, from_string(to_string(v)) holds a
\* value and that value == v.
C10_StringRoundTrip ==
  op = "to_string" =>
     LET parsed == from_string(kind, res.val)
     IN parsed.has_value /\ Eq(kind, parsed.val, old)

\* C10, restricted to values without leading zero segments in Dynamic mode.
C10_RoundTripOnTrimmed ==
  (op = "to_string" /\ (kind = "Dynamic" => Trimmed(old))) =>
     LET parsed == from_string(kind, res.val)
     IN parsed.has_value /\ Eq(kind, parsed.val, old)

\* A string of decimal digits only (the empty string included).
AllDigits(s) == \A k \in 1..Len(s) : s[k] >= Char0 /\ s[k] <= Char9

\* The natural number a string of decimal digits denotes.
RECURSIVE Numeral(_)
Numeral(s) ==
  IF s = <<>> THEN 0
  ELSE Numeral(SubSeq(s, 1, Len(s) - 1)) * 10 + (s[Len(s)] - Char0)

\* C11: from_string raises nothing and returns std::nullopt exactly when the
\* input is empty or holds a character outside '0'..'9', at any position;
\* for every non-empty all-digit input it returns a value.
C11_FromStringRejects ==
  op = "from_string" =>
     /\ ~res.threw
     /\ (res.n = 0) = (text = <<>> \/ ~AllDigits(text))
     /\ res.n = 0 => res.val = <<>>
     /\ res.n = 1 => Len(res.val) >= 1

\* C11 witness: a string rejected for a character that follows a valid digit.
C11_Witness ==
  /\ op = "from_string" /\ res.n = 0
  /\ Len(text) = 2 /\ text[1] = 49 /\ text[2] = 45

\* C12: for a non-empty all-digit string denoting N, from_string returns
\* N mod 2^Bits in Fixed mode and exactly N, trimmed, in Dynamic mode; one or
\* two '0' characters in front of the string do not change the result.
C12_FromStringValue ==
  (op = "from_string" /\ text # <<>> /\ AllDigits(text)) =>
     /\ res.n = 1
     /\ kind = "Fixed" => value(res.val) = Numeral(text) % FixedModulus
     /\ kind = "Dynamic" => (value(res.val) = Numeral(text) /\ Trimmed(res.val))
     /\ from_string(kind, <<Char0>> \o text).val = res.val
     /\ from_string(kind, <<Char0, Char0>> \o text).val = res.val

\* C12 witness: a numeral above 2^Bits parsed in Fixed mode.
C12_Witness ==
  /\ op = "from_string" /\ kind = "Fixed" /\ res.n = 1
  /\ AllDigits(text) /\ Numeral(text) >= FixedModulus
  /\ value(res.val) = Numeral(text) - 3 * FixedModulus

\* C13: to_string(v) is the canonical decimal numeral of value(v): non-empty,
\* digits only, most-significant digit first, no leading zero except that
\* zero is exactly "0".
C13_ToStringCanonical ==
  op = "to_string" =>
     /\ res.val # <<>>
     /\ AllDigits(res.val)
     /\ Numeral(res.val) = value(old)
     /\ Len(res.val) > 1 => res.val[1] # Char0

\* C13 witness: a three-digit numeral ending in '0' has been produced.
C13_Witness ==
  /\ op = "to_string" /\ Len(res.val) = 3 /\ res.val[3] = Char0
  /\ value(old) = 240

\* C14: (a << s) >> s == a for every Fixed a and shift s that push no set bit
\* of a to position >= Bits, and for every Dynamic a and every s; in Dynamic
\* mode the round trip also restores the segment count.
C14_ShiftRoundTrip ==
  (op = "<<" /\ (kind = "Fixed" => value(old) * (2 ^ shift) < FixedModulus)) =>
     /\ Eq(kind, ShiftRight(kind, res.val, shift), old)
     /\ kind = "Dynamic" => Len(ShiftRight(kind, res.val, shift)) = Len(old)

\* C14, restricted to what the code does satisfy: Fixed mode, and Dynamic
\* values without a leading zero segment.
C14_RoundTripOnTrimmed ==
  (/\ op = "<<"
   /\ kind = "Fixed" => value(old) * (2 ^ shift) < FixedModulus
   /\ kind = "Dynamic" => Trimmed(old)) =>
     /\ Eq(kind, ShiftRight(kind, res.val, shift), old)
     /\ kind = "Dynamic" => Len(ShiftRight(kind, res.val, shift)) = Len(old)

\* 1 << k in class kind_.
OneShl(kind_, k) == ShiftLeft(kind_, Construct(kind_, 1), k)

\* C15: in both modes, for every a and every k for which 1 << k is non-zero
\* (k < Bits in Fixed mode, any k in Dynamic mode), a << k == a * (1 << k)
\* and a >> k == a / (1 << k).
C15_ShiftIsMulDiv ==
  (op \in {"<<", ">>"} /\ (kind = "Fixed" => shift < Bits)) =>
     /\ Bool(kind, OneShl(kind, shift))
     /\ op = "<<" => Eq(kind, res.val, Mul(kind, old, OneShl(kind, shift)))
     /\ op = ">>" => Eq(kind, res.val, divide(kind, old, OneShl(kind, shift)).first)

\* C15, restricted to what the code does satisfy: Fixed mode, and Dynamic
\* values without a leading zero segment.
C15_ShiftIsMulDivOnTrimmed ==
  (/\ op \in {"<<", ">>"}
   /\ kind = "Fixed" => shift < Bits
   /\ kind = "Dynamic" => Trimmed(old)) =>
     /\ Bool(kind, OneShl(kind, shift))
     /\ op = "<<" => Eq(kind, res.val, Mul(kind, old, OneShl(kind, shift)))
     /\ op = ">>" => Eq(kind, res.val, divide(kind, old, OneShl(kind, shift)).first)

\* C16: -(-a) == a for every value a, in both modes.
C16_DoubleNegation ==
  op = "neg" => Eq(kind, Neg(kind, res.val), old)

\* C16, restricted to what the code does satisfy: Fixed mode, and trimmed
\* Dynamic values whose negation keeps the segment count.
C16_DoubleNegationSameLength ==
  (op = "neg" /\ (kind = "Dynamic" => Trimmed(old) /\ Len(res.val) = Len(old))) =>
     Eq(kind, Neg(kind, res.val), old)

\* C17: in both modes a + b == b + a, a * b == b * a, (a & b) == (b & a),
\* (a | b) == (b | a) and (a ^ b) == (b ^ a), also for Dynamic operands of
\* different segment counts.
C17_Commutative ==
  /\ op = "+" => Eq(kind, res.val, Add(kind, other, old))
  /\ op = "*" => Eq(kind, res.val, Mul(kind, other, old))
  /\ op = "&" => Eq(kind, res.val, And(kind, other, old))
  /\ op = "|" => Eq(kind, res.val, Or(kind, other, old))
  /\ op = "^" => Eq(kind, res.val, Xor(kind, other, old))

\* C17 witness: a | b computed for a one-segment a and a two-segment b, and
\* equal to b | a.
C17_Witness ==
  /\ kind = "Dynamic" /\ op = "|"
  /\ Len(old) = 1 /\ Len(other) = 2 /\ other[2] # 0
  /\ Len(res.val) = 2 /\ res.val = Or(kind, other, old)

\* C18: in Dynamic mode Dynamic(0) - Dynamic(1) and --Dynamic(0) are the
\* length-1 store whose segment is all ones, equal to Dynamic(-1): the
\* borrow out of the single segment does not grow the store.
C18_DynamicZeroMinusOne ==
  (kind = "Dynamic" /\ old = Dynamic_Construct(0)) =>
     /\ (op = "-" /\ other = Dynamic_Construct(1)) =>
           (res.val = <<ChunkMax>> /\ Dynamic_Eq(res.val, Dynamic_Construct(-1)))
     /\ op = "--" =>
           (a = <<ChunkMax>> /\ res.val = a /\ Dynamic_Eq(a, Dynamic_Construct(-1)))

\* C18 witness: --Dynamic(0) has run and left one all-ones segment.
C18_Witness ==
  /\ kind = "Dynamic" /\ op = "--" /\ old = <<0>> /\ a = <<ChunkMax>>

AllOnes(s) == \A k \in 1..Len(s) : s[k] = ChunkMax

\* C19: in Dynamic mode ++a on a value whose segments are all ones zeroes
\* every segment and appends a segment equal to 1, so the length grows by one
\* and the value is Base^(old length); otherwise ++a adds exactly 1 and keeps
\* the length.  In Fixed mode the all-ones value wraps to 0.
C19_Increment ==
  op = "++" =>
     /\ res.val = a
     /\ (kind = "Dynamic" /\ AllOnes(old)) =>
           /\ Len(a) = Len(old) + 1
           /\ \A k \in 1..Len(old) : a[k] = 0
           /\ a[Len(a)] = 1
           /\ value(a) = Base ^ Len(old)
     /\ (kind = "Dynamic" /\ ~AllOnes(old)) =>
           (value(a) = value(old) + 1 /\ Len(a) = Len(old))
     /\ kind = "Fixed" =>
           /\ value(a) = (value(old) + 1) % FixedModulus
           /\ AllOnes(old) => a = Fixed_Default

\* C19 witness: ++ on the two-segment all-ones Dynamic value has produced
\* three segments.
C19_Witness ==
  /\ kind = "Dynamic" /\ op = "++"
  /\ old = <<ChunkMax, ChunkMax>> /\ a = <<0, 0, 1>>

\* The values of the native signed type as wide as a chunk (int64_t).
SignedNative == -(Base \div 2) .. (Base \div 2 - 1)

\* C20: Fixed construction from a native signed integer sign-extends, so for
\* native signed x and y whose sum, difference or product fits the native
\* type, Fixed(x) + Fixed(y) == Fixed(x + y), Fixed(x) - Fixed(y) ==
\* Fixed(x - y) and Fixed(x) * Fixed(y) == Fixed(x * y).
C20_SignedHomomorphism ==
  (kind = "Fixed" /\ op \in {"+", "-", "*"}) =>
     \A x, y \in SignedNative :
        (old = Fixed_Construct(x) /\ other = Fixed_Construct(y)) =>
           /\ (op = "+" /\ x + y \in SignedNative) =>
                 Fixed_Eq(res.val, Fixed_Construct(x + y))
           /\ (op = "-" /\ x - y \in SignedNative) =>
                 Fixed_Eq(res.val, Fixed_Construct(x - y))
           /\ (op = "*" /\ x * y \in SignedNative) =>
                 Fixed_Eq(res.val, Fixed_Construct(x * y))

\* C20 witness: Fixed(-2) * Fixed(-2) has been computed and is Fixed(4).
C20_Witness ==
  /\ kind = "Fixed" /\ op = "*"
  /\ old = Fixed_Construct(-2) /\ other = Fixed_Construct(-2)
  /\ old[NUM_SEGMENTS] = ChunkMax
  /\ res.val = Fixed_Construct(4)

\* The FixedInteger<Bits> holding the number n, built from native chunks by
\* the constructor, <<= and |=.
RECURSIVE FixedOf(_)
FixedOf(n) ==
  IF n < Base THEN Fixed_Construct(n)
  ELSE Widen("Fixed", FixedOf(n \div Base), n % Base)

\* The exact result of x op y on numbers.
Exact(name, x, y) ==
  IF name = "+" THEN x + y
  ELSE IF name = "-" THEN x - y
  ELSE IF name = "*" THEN x * y
  ELSE IF name = "/" THEN x \div y
  ELSE x % y

\* What FixedInteger<Bits> returns for x op y on the numbers x and y.
FixedResult(name, x, y) ==
  IF name = "+" THEN Fixed_Add(FixedOf(x), FixedOf(y))
  ELSE IF name = "*" THEN Fixed_Mul(FixedOf(x), FixedOf(y))
  ELSE Fixed_divide(FixedOf(x), FixedOf(y)).first

\* C21: for all Dynamic operands a, b whose values fit in Bits bits and whose
\* exact a + b, a * b or a / b (b non-zero) fits in Bits bits, the decimal
\* string of the Dynamic result equals the decimal string of the
\* FixedInteger<Bits> result on the same numbers.
C21_DynamicAgreesWithFixed ==
  (/\ kind = "Dynamic" /\ op \in {"+", "*", "/"} /\ ~res.threw
   /\ value(old) < FixedModulus /\ value(other) < FixedModulus
   /\ Exact(op, value(old), value(other)) < FixedModulus) =>
     to_string("Dynamic", res.val)
       = to_string("Fixed", FixedResult(op, value(old), value(other)))

\* C21, restricted to what the code does satisfy: the operands have no
\* leading zero segment.
C21_AgreesOnTrimmed ==
  (/\ kind = "Dynamic" /\ op \in {"+", "*", "/"} /\ ~res.threw
   /\ Trimmed(old) /\ Trimmed(other)
   /\ value(old) < FixedModulus /\ value(other) < FixedModulus
   /\ Exact(op, value(old), value(other)) < FixedModulus) =>
     to_string("Dynamic", res.val)
       = to_string("Fixed", FixedResult(op, value(old), value(other)))

\* C22: every division with a non-zero divisor leaves its loop after exactly
\* Bits passes in Fixed mode and exactly dividend.bits() passes in Dynamic
\* mode, whatever the operands are.
C22_DivideTerminates ==
  (pc = "divide") ~>
     (/\ pc = "done" /\ ~res.threw
      /\ passes = (IF kind = "Fixed" THEN Bits ELSE bits(old)))

\* A two-segment Dynamic dividend smaller than the divisor, with a zero top
\* segment, was divided in 2 * ChunkBits passes.
C22_Witness ==
  /\ pc = "done" /\ op = "divide" /\ ~res.threw
  /\ kind = "Dynamic" /\ Len(old) = 2 /\ old[2] = 0
  /\ value(old) < value(other)
  /\ passes = 2 * ChunkBits
  /\ res.val = <<0>>

\* The pass-by-pass run returns what divide() returns.
DividePassesAgree ==
  (pc = "done" /\ op = "divide" /\ ~res.threw) =>
     /\ res.val = divide(kind, old, other).first
     /\ res.val2 = divide(kind, old, other).second

\* The number of decimal digits of n, none for zero.
RECURSIVE Digits(_)
Digits(n) == IF n = 0 THEN 0 ELSE 1 + Digits(n \div 10)

ToStringPassesAgree ==
  (pc = "done" /\ op = "to_string") => res.val = to_string(kind, old)

\* The operations whose result can fall below zero, and the exact result of
\* the operation called (on numbers).
Downward == {"-", "neg", "--"}

ExactResult ==
  IF op \in {"+", "-", "*"} THEN Exact(op, value(old), value(other))
  ELSE IF op = "neg" THEN 0 - value(old)
  ELSE IF op = "--" THEN value(old) - 1
  ELSE IF op = "++" THEN value(old) + 1
  ELSE value(old) * (2 ^ shift)

\* The segment count the operation works in: the longer operand's.
WorkLen == IF op = "-" THEN Max(Len(old), Len(other)) ELSE Len(old)

\* C24 as stated: in Dynamic mode no subtraction, negation or decrement on
\* operands of two or more segments yields a result reduced modulo
\* 2^(64 * segment-count), and every other operation returns the exact result.
C24_WrapOnlyAtLengthOne ==
  (kind = "Dynamic" /\ op \in Downward \cup {"+", "*", "++", "<<"}) =>
     /\ (op \in Downward /\ WorkLen >= 2 /\ ExactResult < 0) =>
           value(res.val) # ExactResult + Base ^ WorkLen
     /\ op \notin Downward => value(res.val) = ExactResult

\* C24, amended: a subtraction, negation or decrement whose exact result is
\* below zero wraps modulo 2^(64 * n), n the segment count of the longer
\* operand, for every n, and is then trimmed; +, *, ++ and << are exact.
C24_WrapsAtEveryLength ==
  (kind = "Dynamic" /\ op \in Downward \cup {"+", "*", "++", "<<"}) =>
     /\ op \in Downward =>
           /\ value(res.val) = (ExactResult + Base ^ WorkLen) % (Base ^ WorkLen)
           /\ Trimmed(res.val)
     /\ op \notin Downward => value(res.val) = ExactResult

\* A two-segment value minus a larger two-segment value, both without a
\* leading zero segment, wrapped modulo 2^(2 * 64).
C24_Witness ==
  /\ kind = "Dynamic" /\ op = "-"
  /\ Len(old) = 2 /\ Len(other) = 2 /\ Trimmed(old) /\ Trimmed(other)
  /\ value(old) < value(other)
  /\ value(res.val) = value(old) - value(other) + Base ^ 2

\* The segment count of s << sh by the rule of C25: Len(s) plus the whole
\* segments of the shift, plus one when the top segment of s has a set bit
\* among its highest sh % ChunkBits bits.
GrownLen(s, sh) ==
  LET seg == sh \div ChunkBits
      bit == sh % ChunkBits
  IN Len(s) + seg
       + (IF bit > 0 /\ Shr(s[Len(s)], ChunkBits - bit) # 0 THEN 1 ELSE 0)

\* C25 as stated: in Dynamic mode, for every value a and shift s > 0,
\* (a << s).length() is a.length() + seg, plus one more exactly when bit > 0
\* and the top segment of a has a set bit among its highest bit bits.
C25_ShiftLeftLength ==
  (kind = "Dynamic" /\ op = "<<" /\ shift > 0) =>
     Len(res.val) = GrownLen(old, shift)

\* C25, amended: the rule gives the length for a value counted without its
\* leading zero segments; a zero value stays at length 1 for every shift.
C25_ShiftLeftLengthTrimmed ==
  (kind = "Dynamic" /\ op = "<<" /\ shift > 0) =>
     Len(res.val) = (IF AllZero(old) THEN 1 ELSE GrownLen(trim(old), shift))

\* A one-segment value with its top bit set, shifted by one segment and one
\* bit, has three segments.
C25_Witness ==
  /\ kind = "Dynamic" /\ op = "<<"
  /\ shift = ChunkBits + 1
  /\ Len(old) = 1 /\ old[1] >= Base \div 2
  /\ Len(res.val) = 3

\* Chunk z is the bitwise AND of the chunks x and y.
IsAndOf(z, x, y) ==
  \A j \in 0..(ChunkBits - 1) : Bit(z, j) = Bit(x, j) * Bit(y, j)

\* C26: in Dynamic mode, for all a and b, (a & b).length() is at most
\* min(a.length(), b.length()), every result segment i is a[i] AND b[i],
\* segments beyond the shorter operand contribute zero (the value is that of
\* the ANDed common segments), and the result is trimmed.
C26_AndNeverGrows ==
  (kind = "Dynamic" /\ op = "&") =>
     LET min_len == Min(Len(old), Len(other))
     IN /\ Len(res.val) <= min_len
        /\ \A i \in 1..Len(res.val) : IsAndOf(res.val[i], old[i], other[i])
        /\ \A i \in (Len(res.val) + 1)..min_len : IsAndOf(0, old[i], other[i])
        /\ Trimmed(res.val)

\* Two two-segment values with disjoint top segments: the AND is one
\* non-zero segment.
C26_Witness ==
  /\ kind = "Dynamic" /\ op = "&"
  /\ Len(old) = 2 /\ Len(other) = 2
  /\ old[2] # 0 /\ other[2] # 0
  /\ Len(res.val) = 1 /\ res.val[1] # 0

\* Chunk z is the bitwise complement of the chunk x.
IsNotOf(z, x) ==
  \A j \in 0..(ChunkBits - 1) : Bit(z, j) = 1 - Bit(x, j)

C28_DivisionFloor ==
  /\ (pc = "done" /\ op = "divide" /\ ~res.threw) =>
        /\ value(res.val2) < value(other)
        /\ value(res.val) = value(old) \div value(other)
  /\ (pc = "divide" /\ kind = "Fixed" /\ frame.i > 0) =>
        value(Fixed_Shl(frame.remainder, 1)) = 2 * value(frame.remainder)

\* C28, restricted to what the code does satisfy: Fixed mode, and Dynamic
\* mode when the divisor has no leading zero segment.
C28_FloorOnTrimmedDivisor ==
  /\ (/\ pc = "done" /\ op = "divide" /\ ~res.threw
      /\ kind = "Dynamic" => Trimmed(other)) =>
        /\ value(res.val2) < value(other)
        /\ value(res.val) = value(old) \div value(other)
  /\ (pc = "divide" /\ kind = "Fixed" /\ frame.i > 0) =>
        value(Fixed_Shl(frame.remainder, 1)) = 2 * value(frame.remainder)

\* C29: in both modes, for every value a reachable through the public
\* operations, the boolean cast of a is false iff a == T(0); a
\* default-constructed value is such a zero (all segments zero, length 1 in
\* Dynamic mode).
C29_BoolIffZero ==
  /\ (op = "bool") => (res.n = 0 <=> Eq(kind, old, Construct(kind, 0)))
  /\ AllZero(Default(kind)) /\ ~Bool(kind, Default(kind))
  /\ Eq(kind, Default(kind), Construct(kind, 0))
  /\ Len(Dynamic_Default) = 1

\* C29, restricted to what the code does satisfy: Fixed mode, and Dynamic
\* values without a leading zero segment.
C29_BoolIffZeroOnTrimmed ==
  /\ (op = "bool" /\ (kind = "Dynamic" => Trimmed(old))) =>
        (res.n = 0 <=> Eq(kind, old, Construct(kind, 0)))
  /\ AllZero(Default(kind)) /\ ~Bool(kind, Default(kind))
  /\ Eq(kind, Default(kind), Construct(kind, 0))
  /\ Len(Dynamic_Default) = 1

\* ---------------------------------------------------------------------------
\* mul128 and one pass of the multiplication inner loop, statement by statement
\* (src/ArbitraryInteger.hpp:479-499 and 586-592; the copies in DynamicInteger,
\* 856-876 and 984-991, are the same statements)
\* ---------------------------------------------------------------------------

\* the mutant of mul128_carry: the carry out of the middle sum is dropped
mul128_carry_Never(mid, p1) == 0

\* uint64_t carry = (mid < p1) ? 1 : 0;
mul128_carry(mid, p1) == IF mid < p1 THEN 1 ELSE 0

MulFrame(step, f) ==
  [fn |-> "mul128", step |-> step,
   p0 |-> f.p0, p1 |-> f.p1, p2 |-> f.p2, p3 |-> f.p3,
   mid0 |-> f.mid0, mid |-> f.mid, carry |-> f.carry, lo |-> f.lo, hi |-> f.hi,
   cin |-> f.cin, acc |-> f.acc, c1 |-> f.c1, c2 |-> f.c2, out |-> f.out]

\* mul128(segments[i], other.segments[j]) is entered with any two chunks
Mul128Init ==
  /\ kind \in Kinds
  /\ \E x \in Chunks : a = <<x>>
  /\ \E y \in Chunks : other = <<y>>
  /\ old = a
  /\ pc = "mul128"
  /\ op = "mul128"
  /\ shift = 0
  /\ res = NoRet
  /\ text = <<>>
  /\ frame = MulFrame("enter",
       [p0 |-> 0, p1 |-> 0, p2 |-> 0, p3 |-> 0, mid0 |-> 0, mid |-> 0, carry |-> 0,
        lo |-> 0, hi |-> 0, cin |-> 0, acc |-> 0, c1 |-> FALSE, c2 |-> FALSE,
        out |-> 0])
  /\ passes = 0

\* the halves and the four partial products
MulProducts ==
  /\ pc = "mul128" /\ frame.step = "enter"
  /\ LET a_lo == BitAnd(a[1], HalfBase - 1)
         a_hi == Shr(a[1], HalfBits)
         b_lo == BitAnd(other[1], HalfBase - 1)
         b_hi == Shr(other[1], HalfBits)
     IN frame' = MulFrame("products",
                   [frame EXCEPT !.p0 = Wrap(a_lo * b_lo), !.p1 = Wrap(a_lo * b_hi),
                                 !.p2 = Wrap(a_hi * b_lo), !.p3 = Wrap(a_hi * b_hi)])
  /\ UNCHANGED <<kind, a, old, pc, op, other, shift, res, text, passes>>

\* mid = p1 + (p0 >> 32)
MulMid ==
  /\ pc = "mul128" /\ frame.step = "products"
  /\ LET mid == Wrap(frame.p1 + Shr(frame.p0, HalfBits))
     IN frame' = MulFrame("mid", [frame EXCEPT !.mid0 = mid, !.mid = mid])
  /\ UNCHANGED <<kind, a, old, pc, op, other, shift, res, text, passes>>

\* mid += p2; carry = (mid < p1) ? 1 : 0
MulCarry ==
  /\ pc = "mul128" /\ frame.step = "mid"
  /\ LET mid == Wrap(frame.mid + frame.p2)
     IN frame' = MulFrame("carry", [frame EXCEPT !.mid = mid,
                                                 !.carry = mul128_carry(mid, frame.p1)])
  /\ UNCHANGED <<kind, a, old, pc, op, other, shift, res, text, passes>>

\* lo, hi and the return of the pair
MulCombine ==
  /\ pc = "mul128" /\ frame.step = "carry"
  /\ LET lo == BitOr(Shl(frame.mid, HalfBits), BitAnd(frame.p0, HalfBase - 1))
         hi == Wrap(frame.p3 + Shr(frame.mid, HalfBits) + Shl(frame.carry, HalfBits))
     IN /\ frame' = MulFrame("returned", [frame EXCEPT !.lo = lo, !.hi = hi])
        /\ res' = Ret(FALSE, <<lo, hi>>, <<>>, 0)
  /\ UNCHANGED <<kind, a, old, pc, op, other, shift, text, passes>>

\* the rest of the inner loop body, entered with any carry and any
\* result.segments[i + j]
MulAccumulate ==
  /\ pc = "mul128" /\ frame.step = "returned"
  /\ \E cin \in Chunks, acc \in Chunks :
       LET c1 == add_with_carry(frame.lo, cin, FALSE)
           c2 == add_with_carry(c1.result, acc, FALSE)
           carry == Wrap(frame.hi + (IF c1.carry THEN 1 ELSE 0)
                                  + (IF c2.carry THEN 1 ELSE 0))
       IN /\ frame' = MulFrame("accumulated",
                        [frame EXCEPT !.cin = cin, !.acc = acc, !.c1 = c1.carry,
                                      !.c2 = c2.carry, !.out = c2.result])
          /\ res' = Ret(FALSE, res.val, <<c2.result>>, carry)
  /\ pc' = "done"
  /\ UNCHANGED <<kind, a, old, op, other, shift, text, passes>>

Mul128Next ==
  \/ MulProducts
  \/ MulMid
  \/ MulCarry
  \/ MulCombine
  \/ MulAccumulate

Mul128Spec == Mul128Init /\ [][Mul128Next]_vars

\* the statements above compute what mul128 and the loops' inner body compute
Mul128StepsAgree ==
  /\ (pc \in {"mul128", "done"} /\ frame.fn = "mul128"
        /\ frame.step \in {"returned", "accumulated"})
       => /\ mul128(a[1], other[1]) = [lo |-> frame.lo, hi |-> frame.hi]
          /\ res.val = <<frame.lo, frame.hi>>
  /\ (pc = "done" /\ frame.fn = "mul128")
       => /\ Fixed_MulInner(<<frame.acc>>, a, other, 0, 0, 1, frame.cin) = res.val2
          /\ Dynamic_MulInner(<<frame.acc>>, a, other, 0, 0, frame.cin)
               = [segments |-> res.val2, carry |-> res.n]

\* C30: mul128(a, b) returns (lo, hi) with hi * Base + lo = a * b for every
\* pair of chunks; no partial product and no sum before the last addition of
\* the middle term wraps, the carry out of the middle sum is 1 exactly when
\* mid + p2 passed the chunk width (which the test mid < p1 alone detects),
\* hi itself does not wrap, and in the loop body hi + c1 + c2 stays below
\* Base, so that carry * Base + lo = a * b + carry_in + result.segments[i + j].
C30_Mul128Exact ==
  (frame.fn = "mul128") =>
    LET x == a[1]
        y == other[1]
        a_lo == x % HalfBase
        a_hi == x \div HalfBase
        b_lo == y % HalfBase
        b_hi == y \div HalfBase
        f == frame
        After(steps) == f.step \in steps
        n1 == IF f.c1 THEN 1 ELSE 0
        n2 == IF f.c2 THEN 1 ELSE 0
    IN /\ After({"products", "mid", "carry", "returned", "accumulated"})
            => /\ f.p0 = a_lo * b_lo /\ f.p1 = a_lo * b_hi
               /\ f.p2 = a_hi * b_lo /\ f.p3 = a_hi * b_hi
       /\ After({"mid", "carry", "returned", "accumulated"})
            => f.mid0 = f.p1 + (f.p0 \div HalfBase)
       /\ After({"carry", "returned", "accumulated"})
            => /\ f.carry = (IF f.mid0 + f.p2 >= Base THEN 1 ELSE 0)
               /\ f.carry * Base + f.mid = f.p1 + (f.p0 \div HalfBase) + f.p2
       /\ After({"returned", "accumulated"})
            => /\ f.p3 + (f.mid \div HalfBase) + f.carry * HalfBase < Base
               /\ f.hi * Base + f.lo = x * y
               /\ res.val = <<f.lo, f.hi>>
       /\ After({"accumulated"})
            => /\ f.hi + n1 + n2 < Base
               /\ res.n = f.hi + n1 + n2
               /\ res.n * Base + res.val2[1] = x * y + f.cin + f.acc

\* C30 witness: ChunkMax * ChunkMax, where the middle sum wraps and the carry
\* is set, accumulated with carry_in = result.segments[i + j] = ChunkMax, where
\* the first addition carries and the new carry is ChunkMax, the largest chunk
C30_Witness ==
  /\ pc = "done" /\ frame.fn = "mul128" /\ frame.step = "accumulated"
  /\ a = <<ChunkMax>> /\ other = <<ChunkMax>>
  /\ frame.carry = 1 /\ frame.mid < frame.p1
  /\ frame.cin = ChunkMax /\ frame.acc = ChunkMax
  /\ frame.c1 /\ frame.hi = ChunkMax - 1
  /\ res.n = ChunkMax

=============================================================================
